---- MODULE Spec2Model ----
(***************************************************************************)
(* Asynchronous n-step Q-learning (reinforceflow, agents/async_dqn.py).    *)
(*                                                                         *)
(* One coordinator, AsyncDQNAgent.train, and num_threads worker threads,   *)
(* _ThreadDQNLearner.run.  They share the global parameters, the target    *)
(* parameters, the two counters and the request_stop flag.                 *)
(*                                                                         *)
(* Parameter tensors are abstracted to version numbers: every optimizer    *)
(* apply produces the next version of the global parameters, and a copy    *)
(* (resynchronization, target update, checkpoint) carries the version it   *)
(* copied.  One session call (sess.run) is one atomic step.                *)
(***************************************************************************)
EXTENDS Integers, Sequences, FiniteSets, TLC

\* ---------------------------------------------------------------- bounds
\* The arguments steps, batch_size, target_freq and log_freq of train().
Steps == 2
BatchSize == 2
TargetFreq == 1
LogFreq == 2

\* The values of the argument num_threads, and the threads they create.
ThreadCounts == {0, 1, 2}
Threads == {1, 2}

\* Marks log_dir holding no checkpoint (tf.train.latest_checkpoint is None).
NoCheckpoint == -1

VARIABLES
    \* --- AsyncDQNAgent fields
    request_stop,        \* self.request_stop
    obs_counter,         \* ObservationCounter (self.obs_counter)
    step_counter,        \* GlobalStepCounter (self.step_counter / global_step)
    global_weights,      \* GlobalParameters, as a version
    target_weights,      \* TargetParameters, as the version last copied
    checkpoint,          \* latest checkpoint in log_dir, or NoCheckpoint
    writer,              \* self.writer: "none", "open", "closed"
    \* --- train(): arguments, locals and position
    num_threads,         \* argument num_threads
    thread_agents,       \* number of learners (and environment copies) created
    last_log_step,
    last_target_update,
    step,
    pc,                  \* position of the coordinator in train()
    exc,                 \* exception that left train(): "none" or its name
    \* --- _ThreadDQNLearner.run(): locals and position, per thread
    wpc,                 \* position of each worker
    term,                \* term
    batch_len,           \* len(batch_obs)
    local_weights,       \* the thread's own parameters, as the version copied
    \* --- history
    issued,              \* step indices handed out by increment_obs_counter
    env_steps,           \* env.step calls completed by all workers
    applied,             \* gradient applications to the global parameters
    target_updates,      \* target_update calls made by the coordinator
    final_saved,         \* the save of line 148 was made
    drained,             \* per thread: it applied a batch after the stop request
    \* --- ExperienceReplay (core/experience.py): arguments, fields, position
    size_arg,            \* argument size (the capacity)
    min_size_arg,        \* argument min_size
    batch_size_arg,      \* argument batch_size
    rpc,                 \* "off", "call", "ok", or "ValueError" (raised)
    memory,              \* self.memory, oldest element first
    batch_size,          \* self.batch_size
    min_size,            \* self.min_size
    added,               \* calls of add() so far; the n-th call adds n
    sampled,             \* outcome of the last sample() and the positions drawn
    \* --- run() of thread 1 in detail: the contents of its batch
    obs,                 \* obs, as the index of the observation in its episode
    batch_obs,
    batch_actions,
    batch_rewards,       \* the clipped rewards of lines 251-252
    raw_rewards,         \* the rewards as env.step returned them
    reward_accum,
    ep_reward,           \* values given to ep_reward.add, oldest first
    expected_reward,
    returns,             \* batch_rewards as reassigned by line 262
    env_resets           \* env.reset calls of line 243

vars == << request_stop, obs_counter, step_counter, global_weights,
           target_weights, checkpoint, writer, num_threads, thread_agents,
           last_log_step, last_target_update, step, pc, exc,
           wpc, term, batch_len, local_weights,
           issued, env_steps, applied, target_updates, final_saved,
           drained,
           size_arg, min_size_arg, batch_size_arg, rpc, memory, batch_size,
           min_size, added, sampled,
           obs, batch_obs, batch_actions, batch_rewards, raw_rewards,
           reward_accum, ep_reward, expected_reward, returns, env_resets >>

shared == << request_stop, obs_counter, step_counter, global_weights,
             target_weights, checkpoint, writer >>
coord == << num_threads, thread_agents, last_log_step, last_target_update,
            step, pc, exc >>
workers == << wpc, term, batch_len, local_weights >>
history == << issued, env_steps, applied, target_updates, final_saved,
              drained >>
replay == << size_arg, min_size_arg, batch_size_arg, rpc, memory, batch_size,
             min_size, added, sampled >>
batch == << obs, batch_obs, batch_actions, batch_rewards, raw_rewards,
            reward_accum, ep_reward, expected_reward, returns, env_resets >>

\* ------------------------------------------------------------ positions
\* Lines 132-144: the body of the try statement.
TryBody == {"read_step", "log_do", "target_test", "target_do"}
\* Lines 131-147: the supervision loop.
InLoop == {"cond_alive", "cond_steps", "handler"} \cup TryBody
\* Positions after the loop of line 131 was left.
AfterLoop == {"final_save", "close_writer", "done"}

\* The flag was set by line 147 of this call: line 123 ran before the loop.
StopRequested == request_stop /\ pc \in (InLoop \cup AfterLoop \cup {"raised"})
                 /\ thread_agents > 0

\* ------------------------------------------------------------------ Init
\* The agent after __init__ (lines 28-41) at the call of train(), with an
\* empty log_dir.
AgentInit ==
    /\ obs_counter = 0
    /\ step_counter = 0
    /\ global_weights = 0
    /\ target_weights = 0
    /\ checkpoint = NoCheckpoint
    /\ writer = "none"
    /\ num_threads \in ThreadCounts
    /\ thread_agents = 0
    /\ last_log_step = 0
    /\ last_target_update = 0
    /\ step = 0
    /\ pc = "validate"
    /\ exc = "none"
    /\ wpc = [t \in Threads |-> "absent"]
    /\ term = [t \in Threads |-> TRUE]
    /\ batch_len = [t \in Threads |-> 0]
    /\ local_weights = [t \in Threads |-> 0]
    /\ issued = << >>
    /\ env_steps = 0
    /\ applied = 0
    /\ target_updates = 0
    /\ final_saved = FALSE
    /\ drained = [t \in Threads |-> FALSE]

\* No replay buffer is in use: the asynchronous agent trains on-line.
ReplayIdle ==
    /\ size_arg = 0
    /\ min_size_arg = 0
    /\ batch_size_arg = 0
    /\ rpc = "off"
    /\ memory = << >>
    /\ batch_size = 0
    /\ min_size = 0
    /\ added = 0
    /\ sampled = [status |-> "none", at |-> {}]

\* Lines 232-237: the locals of run() before its loop.
BatchInit ==
    /\ obs = 0
    /\ batch_obs = << >>
    /\ batch_actions = << >>
    /\ batch_rewards = << >>
    /\ raw_rewards = << >>
    /\ reward_accum = 0
    /\ ep_reward = << >>
    /\ expected_reward = 0
    /\ returns = << >>
    /\ env_resets = 0

Init ==
    /\ request_stop = FALSE
    /\ AgentInit
    /\ ReplayIdle
    /\ BatchInit

\* ------------------------------------------- operations of the base agent
\* increment_obs_counter: atomic global increment, returns the new count.
increment_obs_counter(c) == c + 1

\* target_update: TargetParameters become a copy of GlobalParameters.
target_update(g, tgt) == g

\* save_weights: the checkpoint holds the global parameters as saved.
save_weights(g) == g

\* load_weights: global and target parameters restored from the checkpoint.
load_weights(ck) == ck

\* ------------------------------------------------------------ coordinator
\* Faulty variant: the test lets 0 through.
invalid_threads_m(n) == n < 0

\* Line 80.
invalid_threads(n) == n < 1

\* Lines 80-81: num_threads < 1 raises ValueError.
train_validate ==
    /\ pc = "validate"
    /\ IF invalid_threads(num_threads)
         THEN pc' = "raised" /\ exc' = "ValueError"
         ELSE pc' = "build" /\ exc' = exc
    /\ UNCHANGED << shared, num_threads, thread_agents, last_log_step,
                    last_target_update, step, workers, history >>
    /\ UNCHANGED << replay, batch >>

\* Lines 82-118: one environment copy and one learner per thread, the
\* writer, the initializer, the optional restore, the two cadence marks.
train_build ==
    /\ pc = "build"
    /\ thread_agents' = num_threads
    /\ wpc' = [t \in Threads |-> IF t <= num_threads THEN "new" ELSE wpc[t]]
    /\ writer' = "open"
    /\ IF checkpoint # NoCheckpoint
         THEN /\ global_weights' = load_weights(checkpoint)
              /\ target_weights' = load_weights(checkpoint)
         ELSE /\ global_weights' = 0
              /\ target_weights' = 0
    /\ local_weights' = [t \in Threads |-> 0]
    /\ last_log_step' = obs_counter
    /\ last_target_update' = obs_counter
    /\ pc' = "start"
    /\ UNCHANGED << request_stop, obs_counter, step_counter, checkpoint,
                    num_threads, step, exc, term, batch_len, history >>
    /\ UNCHANGED << replay, batch >>

\* Lines 120-122: the threads are started one after the other; a started
\* thread runs lines 232-237 (locals only) and stands at line 238.
train_start(t) ==
    /\ pc = "start"
    /\ wpc[t] = "new"
    /\ \A u \in Threads : u < t => wpc[u] # "new"
    /\ wpc' = [wpc EXCEPT ![t] = "top"]
    /\ UNCHANGED << shared, coord, term, batch_len, local_weights, history >>
    /\ UNCHANGED << replay, batch >>

\* Lines 123-130: the flag is cleared after every thread was started.
train_reset_stop ==
    /\ pc = "start"
    /\ \A t \in Threads : wpc[t] # "new"
    /\ request_stop' = FALSE
    /\ pc' = "cond_alive"
    /\ UNCHANGED << obs_counter, step_counter, global_weights, target_weights,
                    checkpoint, writer, num_threads, thread_agents,
                    last_log_step, last_target_update, step, exc,
                    workers, history >>
    /\ UNCHANGED << replay, batch >>

\* Lines 125-126.
has_live_threads == \E t \in Threads : wpc[t] \notin {"absent", "new", "exited"}

\* Line 131, left operand.
train_cond_alive ==
    /\ pc = "cond_alive"
    /\ pc' = IF has_live_threads THEN "cond_steps" ELSE "final_save"
    /\ UNCHANGED << shared, num_threads, thread_agents, last_log_step,
                    last_target_update, step, exc, workers, history >>
    /\ UNCHANGED << replay, batch >>

\* Faulty variant: the loop ignores the step budget.
below_budget_m(c) == TRUE

\* Line 131, right operand.
below_budget(c) == c < Steps

\* Line 131, right operand, evaluated after the left one.
train_cond_steps ==
    /\ pc = "cond_steps"
    /\ pc' = IF below_budget(obs_counter) THEN "read_step" ELSE "final_save"
    /\ UNCHANGED << shared, num_threads, thread_agents, last_log_step,
                    last_target_update, step, exc, workers, history >>
    /\ UNCHANGED << replay, batch >>

\* Faulty variant: the test forgets the step of the last target update.
target_due_m(s) == s >= TargetFreq

\* Lines 137-139, 142-143 (render is off: lines 133-136 do nothing).  The
\* counter is read once; the two tests that follow read locals only, so
\* they are taken in the same step up to the next shared operation.  step is
\* read again before every use: outside the try body it is kept at 0.
log_due(s) == s - last_log_step >= LogFreq

target_due(s) == s - last_target_update >= TargetFreq

train_read_step ==
    /\ pc = "read_step"
    /\ LET s == obs_counter IN
         IF log_due(s)
           THEN /\ last_log_step' = s
                /\ step' = s
                /\ pc' = "log_do"
                /\ UNCHANGED last_target_update
           ELSE IF target_due(s)
             THEN /\ last_target_update' = s
                  /\ step' = s
                  /\ pc' = "target_do"
                  /\ UNCHANGED last_log_step
             ELSE /\ step' = 0
                  /\ pc' = "cond_alive"
                  /\ UNCHANGED << last_log_step, last_target_update >>
    /\ UNCHANGED << shared, num_threads, thread_agents, exc, workers, history >>
    /\ UNCHANGED << replay, batch >>

\* Lines 140-141: evaluation, logging, periodic checkpoint.
train_log_do ==
    /\ pc = "log_do"
    /\ checkpoint' = save_weights(global_weights)
    /\ pc' = "target_test"
    /\ UNCHANGED << request_stop, obs_counter, step_counter, global_weights,
                    target_weights, writer, num_threads, thread_agents,
                    last_log_step, last_target_update, step, exc,
                    workers, history >>
    /\ UNCHANGED << replay, batch >>

\* Lines 142-143.
train_target_test ==
    /\ pc = "target_test"
    /\ IF target_due(step)
         THEN /\ last_target_update' = step
              /\ step' = step
              /\ pc' = "target_do"
         ELSE /\ last_target_update' = last_target_update
              /\ step' = 0
              /\ pc' = "cond_alive"
    /\ UNCHANGED << shared, num_threads, thread_agents, last_log_step,
                    exc, workers, history >>
    /\ UNCHANGED << replay, batch >>

\* Line 144.
train_target_do ==
    /\ pc = "target_do"
    /\ target_weights' = target_update(global_weights, target_weights)
    /\ target_updates' = target_updates + 1
    /\ step' = 0
    /\ pc' = "cond_alive"
    /\ UNCHANGED << request_stop, obs_counter, step_counter, global_weights,
                    checkpoint, writer, num_threads, thread_agents,
                    last_log_step, last_target_update, exc, workers,
                    issued, env_steps, applied, final_saved,
                    drained >>
    /\ UNCHANGED << replay, batch >>

\* Lines 145-147: the except clause.
train_handler ==
    /\ pc = "handler"
    /\ request_stop' = TRUE
    /\ pc' = "cond_alive"
    /\ UNCHANGED << obs_counter, step_counter, global_weights, target_weights,
                    checkpoint, writer, num_threads, thread_agents,
                    last_log_step, last_target_update, step, exc,
                    workers, history >>
    /\ UNCHANGED << replay, batch >>

\* Lines 148-149.
train_final_save ==
    /\ pc = "final_save"
    /\ checkpoint' = save_weights(global_weights)
    /\ final_saved' = TRUE
    /\ pc' = "close_writer"
    /\ UNCHANGED << request_stop, obs_counter, step_counter, global_weights,
                    target_weights, writer, num_threads, thread_agents,
                    last_log_step, last_target_update, step, exc, workers,
                    issued, env_steps, applied, target_updates,
                    drained >>
    /\ UNCHANGED << replay, batch >>

\* Lines 150-152: close() of a learner does nothing (lines 284-285).  The
\* locals of train() end with the call.
train_close ==
    /\ pc = "close_writer"
    /\ writer' = "closed"
    /\ pc' = "done"
    /\ last_log_step' = 0
    /\ last_target_update' = 0
    /\ UNCHANGED << request_stop, obs_counter, step_counter, global_weights,
                    target_weights, checkpoint, num_threads, thread_agents,
                    step, exc, workers, history >>
    /\ UNCHANGED << replay, batch >>

\* Ctrl+C, delivered to the main thread between two bytecodes of lines
\* 131-150.  Inside the try body (lines 132-144) it is caught by line 145;
\* anywhere else (the loop condition, the except clause, the final save,
\* the close) nothing catches it and it leaves train().
caught(p) == p \in TryBody

KeyboardInterrupt ==
    /\ pc \in (InLoop \cup {"final_save", "close_writer"})
    /\ IF caught(pc)
         THEN /\ pc' = "handler"
              /\ UNCHANGED << exc, last_log_step, last_target_update >>
         ELSE /\ pc' = "raised"
              /\ exc' = "KeyboardInterrupt"
              /\ last_log_step' = 0
              /\ last_target_update' = 0
    /\ step' = 0
    /\ UNCHANGED << shared, num_threads, thread_agents, workers, history >>
    /\ UNCHANGED << replay, batch >>

Coordinator ==
    \/ train_validate
    \/ train_build
    \/ \E t \in Threads : train_start(t)
    \/ train_reset_stop
    \/ train_cond_alive
    \/ train_cond_steps
    \/ train_read_step
    \/ train_log_do
    \/ train_target_test
    \/ train_target_do
    \/ train_handler
    \/ train_final_save
    \/ train_close

\* ---------------------------------------------------------------- workers
\* Faulty variant: the loop of run ignores the flag.
run_continues_m(flag) == TRUE

\* Line 238: the loop test of run().
run_continues(flag) == ~flag

\* Faulty variant: the test lets a full batch take one more step.
collect_more_m(t) == ~term[t] /\ batch_len[t] <= BatchSize

\* Line 244: the test of the collection loop.
collect_more(t) == ~term[t] /\ batch_len[t] < BatchSize

\* Faulty variant: the pass reads the counter without incrementing it.
obs_after_pass_m(c) == c

\* Line 245: the counter after the call made by one pass of the loop.
obs_after_pass(c) == increment_obs_counter(c)

\* Lines 205-207: the train op applies the gradients to the global agent's
\* weights and increments the global agent's global_step.
\* Faulty variant: apply_gradients is called without global_step.
global_step_after_apply_m(n) == n

\* Faulty variant: the gradients are applied to the target weights as well.
target_after_apply_m(tgt, g) == g

weights_after_apply(g) == g + 1

global_step_after_apply(n) == n + 1

target_after_apply(tgt, g) == tgt

\* Faulty variant: the train op writes the thread's own weights too.
local_after_apply_m(loc, g) == g

local_after_apply(loc, g) == loc

\* _train_on_batch: one run of the train op of lines 205-207, giving the
\* global weights and the global step after it.
train_on_batch(g, n) == << weights_after_apply(g), global_step_after_apply(n) >>

\* Lines 208-209, 227-229: the sync op assigns the global weights to the
\* thread's own weights.
local_after_sync(loc, g) == g

\* Line 238.  The threads never look at the step budget; to keep the
\* counters bounded, a batch is begun only while the budget is not reached
\* (a batch that was begun is always finished).
top_within(t, cap) ==
    /\ wpc[t] = "top"
    /\ IF run_continues(request_stop)
         THEN /\ obs_counter < cap
              /\ wpc' = [wpc EXCEPT ![t] = "sync"]
         ELSE wpc' = [wpc EXCEPT ![t] = "exited"]
    /\ UNCHANGED << shared, coord, term, batch_len, local_weights, history >>

thread_top(t) == top_within(t, Steps)

\* Lines 239-243: resynchronization, empty batch, reset after an episode end.
thread_sync(t) ==
    /\ wpc[t] = "sync"
    /\ local_weights' = [local_weights EXCEPT
                           ![t] = local_after_sync(local_weights[t], global_weights)]
    /\ batch_len' = [batch_len EXCEPT ![t] = 0]
    /\ term' = [term EXCEPT ![t] = FALSE]
    /\ wpc' = [wpc EXCEPT ![t] = "collect"]
    /\ UNCHANGED << shared, coord, history >>

\* Lines 244-253: one pass of the collection loop.  The shared counter is
\* incremented (line 245); prediction, action selection and the step of the
\* thread's own environment (lines 246-253) touch nothing shared and are
\* taken with it.  The environment decides whether the episode ended.
thread_collect(t) ==
    /\ wpc[t] = "collect"
    /\ collect_more(t)
    /\ obs_counter' = obs_after_pass(obs_counter)
    /\ issued' = Append(issued, obs_counter')
    /\ \E ended \in BOOLEAN : term' = [term EXCEPT ![t] = ended]
    /\ batch_len' = [batch_len EXCEPT ![t] = @ + 1]
    /\ env_steps' = env_steps + 1
    /\ UNCHANGED << request_stop, step_counter, global_weights, target_weights,
                    checkpoint, writer, coord, wpc, local_weights,
                    applied, target_updates, final_saved, drained >>

\* Lines 254-262: bootstrap value (target network unless the episode ended)
\* and discounted returns.
thread_bootstrap(t) ==
    /\ wpc[t] = "collect"
    /\ ~collect_more(t)
    /\ wpc' = [wpc EXCEPT ![t] = "train"]
    /\ UNCHANGED << shared, coord, term, batch_len, local_weights, history >>

\* Lines 263-267 with 205-207: the gradients of the batch are applied, and
\* the batch is discarded (it is not read again before line 240 empties it).
thread_train(t) ==
    /\ wpc[t] = "train"
    /\ global_weights' = train_on_batch(global_weights, step_counter)[1]
    /\ step_counter' = train_on_batch(global_weights, step_counter)[2]
    /\ target_weights' = target_after_apply(target_weights, global_weights')
    /\ local_weights' = [local_weights EXCEPT
                           ![t] = local_after_apply(@, global_weights')]
    /\ applied' = applied + 1
    /\ drained' = [drained EXCEPT ![t] = @ \/ StopRequested]
    /\ batch_len' = [batch_len EXCEPT ![t] = 0]
    /\ wpc' = [wpc EXCEPT ![t] = "top"]
    /\ UNCHANGED << request_stop, obs_counter, checkpoint, writer, coord,
                    term, issued, env_steps, target_updates, final_saved >>

\* The steps of run() as the agent sees them: the contents of the batch are
\* left aside.
run_top(t) == thread_top(t) /\ UNCHANGED << replay, batch >>

run_sync(t) == thread_sync(t) /\ UNCHANGED << replay, batch >>

run_collect(t) == thread_collect(t) /\ UNCHANGED << replay, batch >>

run_bootstrap(t) == thread_bootstrap(t) /\ UNCHANGED << replay, batch >>

run_train(t) == thread_train(t) /\ UNCHANGED << replay, batch >>

Worker(t) ==
    \/ run_top(t)
    \/ run_sync(t)
    \/ run_collect(t)
    \/ run_bootstrap(t)
    \/ run_train(t)

\* --------------------------------------------------------- specifications
Next ==
    \/ Coordinator
    \/ KeyboardInterrupt
    \/ \E t \in Threads : Worker(t)

Spec == Init /\ [][Next]_vars

\* The interpreter schedules every runnable thread again and again.
FairSpec ==
    /\ Spec
    /\ WF_vars(Coordinator)
    /\ \A t \in Threads : WF_vars(Worker(t))

\* ------------------------------------------------------------------ claims
\* train() ended: it returned, or Ctrl+C left it.
Returned == pc = "done"
Interrupted == pc = "raised" /\ exc = "KeyboardInterrupt"
\* No Ctrl+C arrived during the call (the flag starts FALSE, line 36).
Uninterrupted == Returned /\ ~request_stop
Created == {t \in Threads : wpc[t] # "absent"}

\* C1: whenever train() has returned or was left by a keyboard interrupt,
\* the final checkpoint save was made and the metrics writer is closed.
C1_FinalSaveAndClose ==
    (Returned \/ Interrupted) => (final_saved /\ writer = "closed")

\* C2: once train() has returned, the last saved checkpoint equals the
\* global parameters: no worker applies a gradient after the final save.
C2_CheckpointIsFinal ==
    Returned => checkpoint = global_weights

\* C3: the coordinator is past the supervision loop (at the final save or
\* later, or out of train() by a keyboard interrupt) only when no worker
\* thread is alive or ObservationCounter >= total_steps.
C3_LoopLeftOnlyWhenOver ==
    (pc \in AfterLoop \/ Interrupted)
        => (~has_live_threads \/ obs_counter >= Steps)

\* C4: an uninterrupted run with total_steps = k * target_freq has made at
\* least k - 1 target updates when train() returns.
C4_TargetRefreshes ==
    Uninterrupted => target_updates >= (Steps \div TargetFreq) - 1

\* C5: ObservationCounter equals the number of environment steps begun by
\* all workers, the indices handed out are pairwise distinct (the i-th call
\* got i), and the counter never decreases.
C5_NoLostObservation ==
    /\ [](/\ obs_counter = env_steps
          /\ Len(issued) = obs_counter
          /\ \A i, j \in 1..Len(issued) : i # j => issued[i] # issued[j]
          /\ \A i \in 1..Len(issued) : issued[i] = i)
    /\ [][obs_counter' >= obs_counter]_vars

C5_Witness ==
    /\ obs_counter >= 2
    /\ \A t \in Threads : batch_len[t] >= 1

\* C6: GlobalStepCounter equals the number of batches whose gradients were
\* applied to the global parameters, and never decreases.
C6_StepPerApply ==
    /\ [](step_counter = applied)
    /\ [][step_counter' >= step_counter]_vars

C6_Witness ==
    /\ applied >= 2
    /\ \A t \in Threads : wpc[t] = "top"

\* C7: a worker leaves its loop only at the top of the batch loop with the
\* flag set; with the flag set it never begins a batch; a batch has at most
\* batch_size passes; and a worker that applied a batch after the stop
\* request is never in a batch again (no further pass, no further apply).
C7_CooperativeStop ==
    /\ [](\A t \in Threads :
            /\ batch_len[t] <= BatchSize
            /\ drained[t] => wpc[t] \in {"top", "exited"})
    /\ [][\A t \in Threads :
            /\ (wpc'[t] = "exited" /\ wpc[t] # "exited")
                   => (wpc[t] = "top" /\ request_stop)
            /\ (request_stop /\ wpc[t] = "top")
                   => wpc'[t] \in {"top", "exited"}]_vars

C7_Witness ==
    \E t \in Threads : drained[t] /\ wpc[t] = "exited"

C9_TargetFrame ==
    [][/\ (wpc' # wpc) => target_weights' = target_weights
       /\ (target_weights' # target_weights)
             => \/ pc = "target_do" /\ pc' = "cond_alive"
                \/ pc = "build" /\ pc' = "start"]_vars

C9_Witness ==
    /\ applied >= 2
    /\ target_updates >= 1
    /\ target_weights < global_weights
    /\ \E t \in Threads : wpc[t] = "train"

\* C10: with num_threads < 1 train() does nothing but raise ValueError: no
\* environment copy, learner or thread exists, the writer is not opened, and
\* the flag and the counters are never changed.
C10_ZeroThreadsFailFast ==
    /\ [](num_threads < 1 =>
            /\ pc \in {"validate", "raised"}
            /\ pc = "raised" => exc = "ValueError"
            /\ thread_agents = 0
            /\ Created = {}
            /\ writer = "none")
    /\ [][num_threads < 1 =>
            UNCHANGED << request_stop, obs_counter, step_counter >>]_vars

C10_Witness ==
    num_threads = 0 /\ pc = "raised" /\ exc = "ValueError"

\* ------------------------------------------------------ ExperienceReplay
\* core/experience.py.  The buffer is exercised on its own: it is built with
\* every combination of small arguments, filled past its capacity and
\* sampled, while the agent stands still.
MaxCapacity == 3
\* Calls of add() made beyond the capacity.
MaxExtraAdds == 2

ReplayInit ==
    /\ request_stop = FALSE
    /\ AgentInit
    /\ num_threads = 1
    /\ BatchInit
    /\ size_arg \in 0..MaxCapacity
    /\ min_size_arg \in 0..(MaxCapacity + 1)
    /\ batch_size_arg \in 0..(MaxCapacity + 1)
    /\ rpc = "call"
    /\ memory = << >>
    /\ batch_size = 0
    /\ min_size = 0
    /\ added = 0
    /\ sampled = [status |-> "none", at |-> {}]

\* The builtin min.
min(a, b) == IF a <= b THEN a ELSE b

\* Faulty variant: the requested min_size is kept as it is.
effective_min_size_m(sz, bsz, msz) == msz

\* Line 16.
effective_min_size(sz, bsz, msz) == min(sz - bsz, msz)

\* Lines 10-16: __init__.
ExperienceReplay_init ==
    /\ rpc = "call"
    /\ IF min_size_arg < batch_size_arg
         THEN /\ rpc' = "ValueError"
              /\ UNCHANGED << memory, batch_size, min_size >>
         ELSE /\ rpc' = "ok"
              /\ memory' = << >>
              /\ batch_size' = batch_size_arg
              /\ min_size' = effective_min_size(size_arg, batch_size_arg,
                                                min_size_arg)
    /\ UNCHANGED << size_arg, min_size_arg, batch_size_arg, added, sampled >>
    /\ UNCHANGED << shared, coord, workers, history, batch >>

\* Faulty variant: a full buffer refuses the new element.
deque_append_m(mem, maxlen, v) ==
    IF Len(mem) >= maxlen THEN mem ELSE Append(mem, v)

\* Lines 14 and 19: append to a deque made with maxlen; when the deque is
\* full the element at the opposite end, the oldest, is discarded.
deque_append(mem, maxlen, v) ==
    IF maxlen = 0 THEN mem
    ELSE IF Len(mem) = maxlen THEN Append(Tail(mem), v)
    ELSE Append(mem, v)

\* Lines 24-26 and 32-33.
size(mem) == Len(mem)

\* Lines 28-30.
is_ready == size(memory) >= min_size + batch_size

\* Lines 18-19: add; the n-th call adds the value n.
add ==
    /\ rpc = "ok"
    /\ added < size_arg + MaxExtraAdds
    /\ memory' = deque_append(memory, size_arg, added + 1)
    /\ added' = added + 1
    /\ sampled' = [status |-> "none", at |-> {}]
    /\ UNCHANGED << size_arg, min_size_arg, batch_size_arg, rpc, batch_size,
                    min_size >>
    /\ UNCHANGED << shared, coord, workers, history, batch >>

\* Lines 21-22: random.sample(self.memory, self.batch_size) draws batch_size
\* positions without replacement, and raises ValueError when the sample is
\* larger than the population.
sample ==
    /\ rpc = "ok"
    /\ IF batch_size > size(memory)
         THEN sampled' = [status |-> "ValueError", at |-> {}]
         ELSE \E P \in SUBSET (1..size(memory)) :
                /\ Cardinality(P) = batch_size
                /\ sampled' = [status |-> "ok", at |-> P]
    /\ UNCHANGED << size_arg, min_size_arg, batch_size_arg, rpc, memory,
                    batch_size, min_size, added >>
    /\ UNCHANGED << shared, coord, workers, history, batch >>

ReplayNext == ExperienceReplay_init \/ add \/ sample

ReplaySpec == ReplayInit /\ [][ReplayNext]_vars

\* C11: the number of stored elements stays between 0 and the capacity, and
\* after any number of adds the buffer holds the most recent elements, at
\* most capacity of them, in the order they were added (FIFO eviction).
C11_BoundedFifo ==
    rpc = "ok" =>
      /\ 0 <= size(memory) /\ size(memory) <= size_arg
      /\ size(memory) = min(added, size_arg)
      /\ \A i \in 1..Len(memory) : memory[i] = added - Len(memory) + i

C11_Witness ==
    /\ rpc = "ok"
    /\ size_arg >= 2
    /\ added = size_arg + MaxExtraAdds
    /\ memory[1] = MaxExtraAdds + 1

\* C12: whenever a successfully constructed buffer is ready, sample() gives
\* exactly batch_size pairwise distinct positions of the current contents.
C12_SampleWhenReady ==
    (rpc = "ok" /\ is_ready /\ sampled.status # "none") =>
      /\ sampled.status = "ok"
      /\ Cardinality(sampled.at) = batch_size
      /\ sampled.at \subseteq 1..size(memory)

\* C13: the effective min_size is the smaller of capacity - batch_size and
\* the requested min_size (10, 4, 9 gives 6), so that effective min_size +
\* batch_size never exceeds the capacity and a buffer that received capacity
\* adds is ready; readiness is size >= effective min_size + batch_size.
C13_ClampedMinSize ==
    /\ effective_min_size(10, 4, 9) = 6
    /\ rpc = "ok" =>
         /\ min_size <= size_arg - batch_size
         /\ min_size <= min_size_arg
         /\ min_size \in {size_arg - batch_size, min_size_arg}
         /\ min_size + batch_size <= size_arg
         /\ (added >= size_arg => is_ready)
         /\ (is_ready <=> Len(memory) >= min_size + batch_size)

C13_Witness ==
    /\ rpc = "ok"
    /\ min_size < min_size_arg
    /\ min_size >= 1
    /\ added = size_arg
    /\ is_ready
    /\ sampled.status = "ok"

\* ------------------------------------------- cadence of the supervision loop
\* What lines 137-144 do with the value read at line 137, whether or not a
\* KeyboardInterrupt may cut the iteration short.
CadenceStep(interruptible) ==
    /\ (pc = "read_step" /\ pc' \notin {"read_step", "handler"}) =>
         /\ (obs_counter - last_log_step >= LogFreq) =>
              (pc' = "log_do" /\ last_log_step' = obs_counter
                 /\ step' = obs_counter)
         /\ (/\ obs_counter - last_log_step < LogFreq
             /\ obs_counter - last_target_update >= TargetFreq) =>
              (pc' = "target_do" /\ last_target_update' = obs_counter
                 /\ last_log_step' = last_log_step)
         /\ (/\ obs_counter - last_log_step < LogFreq
             /\ obs_counter - last_target_update < TargetFreq) =>
              (pc' = "cond_alive" /\ last_target_update' = last_target_update
                 /\ last_log_step' = last_log_step)
    /\ (pc = "log_do" /\ pc' # pc) =>
         \/ pc' = "target_test" /\ checkpoint' = global_weights
         \/ interruptible /\ pc' = "handler"
    /\ (pc = "target_test" /\ pc' # pc) =>
         \/ /\ step - last_target_update >= TargetFreq
            /\ pc' = "target_do" /\ last_target_update' = step
         \/ /\ step - last_target_update < TargetFreq
            /\ pc' = "cond_alive" /\ last_target_update' = last_target_update
         \/ interruptible /\ pc' = "handler"
    /\ (pc = "target_do" /\ pc' # pc) =>
         \/ /\ pc' = "cond_alive"
            /\ target_weights' = global_weights
            /\ target_updates' = target_updates + 1
         \/ interruptible /\ pc' = "handler"

\* Consecutive firings are at least the frequency apart, and nothing but a
\* firing (or the end of train) writes last_log_step or last_target_update.
CadenceSpacing ==
    /\ (last_log_step' # last_log_step /\ pc' \in InLoop) =>
         (pc' = "log_do" /\ last_log_step' - last_log_step >= LogFreq)
    /\ (last_target_update' # last_target_update /\ pc' \in InLoop) =>
         (pc' = "target_do"
            /\ last_target_update' - last_target_update >= TargetFreq)

CadenceBounded ==
    last_log_step <= obs_counter /\ last_target_update <= obs_counter

\* C14 (as stated): every iteration of the supervision loop that reads a
\* step with step - last_log_step >= log_freq sets last_log_step to step and
\* saves the checkpoint in that iteration, and likewise for the target
\* update; firings are at least the frequency apart and last_log_step and
\* last_target_update never exceed the observation counter.
C14_CadenceEveryIteration ==
    /\ []CadenceBounded
    /\ [][CadenceStep(FALSE) /\ CadenceSpacing]_vars

\* C14 (amended): the same for every iteration that no KeyboardInterrupt
\* cuts short; an interrupt raised after last_log_step or last_target_update
\* was assigned skips the rest of the iteration, the save or the target
\* update included.
C14_CadenceUnlessInterrupted ==
    /\ []CadenceBounded
    /\ [][CadenceStep(TRUE) /\ CadenceSpacing]_vars

C14_Witness ==
    /\ pc = "target_do"
    /\ step >= LogFreq
    /\ last_log_step = step
    /\ last_target_update = step
    /\ checkpoint # NoCheckpoint

\* ---------------------------------------------- the thread's own parameters
\* C15: a thread's own parameters are written only by the resynchronization
\* at the top of its batch loop, once for every batch, and then hold the
\* global parameters of that moment (the initializer of line 114 apart);
\* a gradient apply of any thread changes the global parameters and the
\* global step only, so during a batch the thread's parameters are the
\* snapshot it copied, which the global parameters may have left behind.
C15_LocalParametersFrame ==
    /\ [](\A t \in Threads :
            wpc[t] \in {"collect", "train"} =>
              local_weights[t] <= global_weights)
    /\ [][\A t \in Threads :
            /\ (local_weights'[t] # local_weights[t]) =>
                 \/ pc = "build"
                 \/ /\ wpc[t] = "sync" /\ wpc'[t] = "collect"
                    /\ local_weights'[t] = global_weights
            /\ (wpc'[t] = "collect" /\ wpc[t] # "collect") =>
                 (wpc[t] = "sync" /\ local_weights'[t] = global_weights)
            /\ (wpc[t] = "train" /\ wpc'[t] # "train") =>
                 /\ global_weights' # global_weights
                 /\ step_counter' = step_counter + 1
                 /\ local_weights' = local_weights
                 /\ UNCHANGED << request_stop, obs_counter, target_weights,
                                 checkpoint, writer >>]_vars

C15_Witness ==
    \E t \in Threads :
      /\ wpc[t] = "train"
      /\ local_weights[t] >= 1
      /\ local_weights[t] < global_weights

\* ----------------------------------------------- the contents of a batch
\* run() of one thread with the contents of its batch: observations,
\* actions, rewards, the episode accumulator and the returns.  train() builds
\* and starts the thread; its supervision loop, which touches none of these,
\* is left out.  So that a batch can follow one that did not end its
\* episode, a batch is begun while the counter is within the budget.
Gamma == 2
RawRewards == {-3, 1, 5}
Actions == {0, 1}
LearnerCap == Steps + 1

LearnerInit ==
    /\ request_stop = FALSE
    /\ AgentInit
    /\ num_threads = 1
    /\ ReplayIdle
    /\ BatchInit

\* target_predict / predict followed by np.max: the largest action value a
\* network with weights w gives at observation o.
max_q(w, o) == w + o + 1

\* discount_rewards(rewards, gamma, expected_reward): the returns, computed
\* from the last reward backwards starting from expected_reward.
RECURSIVE discounted_from(_, _, _, _)
discounted_from(rewards, gamma, initial, i) ==
    IF i > Len(rewards) THEN initial
    ELSE rewards[i] + gamma * discounted_from(rewards, gamma, initial, i + 1)

discount_rewards(rewards, gamma, initial) ==
    [i \in 1..Len(rewards) |-> discounted_from(rewards, gamma, initial, i)]

\* Line 251: np.clip.
clip(x, lo, hi) == IF x < lo THEN lo ELSE IF x > hi THEN hi ELSE x

\* Faulty variant: the accumulator adds the clipped reward.
accum_after_m(acc, raw) == acc + clip(raw, -1, 1)

\* Line 250.
accum_after(acc, raw) == acc + raw

\* Faulty variant: the environment is reset before every batch.
reset_needed_m(tm) == TRUE

\* Line 241.
reset_needed(tm) == tm

\* Faulty variant: the bootstrap value is taken from the thread's own network.
bootstrap_value_m(ended, o) ==
    IF ended THEN 0 ELSE max_q(local_weights[1], o)

\* Lines 254-256: 0 when the episode ended, else the largest action value of
\* the global agent's target network at the last observation.
bootstrap_value(ended, o) ==
    IF ended THEN 0 ELSE max_q(target_weights, o)

learner_top == top_within(1, LearnerCap) /\ UNCHANGED << replay, batch >>

\* Lines 239-243.
learner_sync ==
    /\ thread_sync(1)
    /\ batch_obs' = << >>
    /\ batch_actions' = << >>
    /\ batch_rewards' = << >>
    /\ raw_rewards' = << >>
    /\ returns' = << >>
    /\ IF reset_needed(term[1])
         THEN obs' = 0 /\ env_resets' = env_resets + 1
         ELSE UNCHANGED << obs, env_resets >>
    /\ UNCHANGED << reward_accum, ep_reward, expected_reward, replay >>

\* Lines 244-253: the observation is stored, an action chosen, the
\* environment stepped; the reward is accumulated as returned and stored
\* clipped.
learner_collect ==
    /\ thread_collect(1)
    /\ \E raw \in RawRewards, a \in Actions :
         /\ batch_obs' = Append(batch_obs, obs)
         /\ batch_actions' = Append(batch_actions, a)
         /\ raw_rewards' = Append(raw_rewards, raw)
         /\ reward_accum' = accum_after(reward_accum, raw)
         /\ batch_rewards' = Append(batch_rewards, clip(raw, -1, 1))
    /\ obs' = obs + 1
    /\ UNCHANGED << ep_reward, expected_reward, returns, env_resets, replay >>

\* Lines 254-262.
learner_bootstrap ==
    /\ thread_bootstrap(1)
    /\ expected_reward' = bootstrap_value(term[1], obs)
    /\ IF term[1]
         THEN /\ ep_reward' = Append(ep_reward, reward_accum)
              /\ reward_accum' = 0
         ELSE UNCHANGED << ep_reward, reward_accum >>
    /\ returns' = discount_rewards(batch_rewards, Gamma, expected_reward')
    /\ UNCHANGED << obs, batch_obs, batch_actions, batch_rewards, raw_rewards,
                    env_resets, replay >>

\* Lines 263-267: the batch is handed to _train_on_batch.
learner_train == thread_train(1) /\ UNCHANGED << replay, batch >>

LearnerNext ==
    \/ train_validate
    \/ train_build
    \/ train_start(1)
    \/ train_reset_stop
    \/ learner_top
    \/ learner_sync
    \/ learner_collect
    \/ learner_bootstrap
    \/ learner_train

LearnerSpec == LearnerInit /\ [][LearnerNext]_vars

\* C16: a batch handed to the gradient step holds between 1 and batch_size
\* steps, with as many observations as actions as rewards; collecting goes
\* on exactly while the episode has not ended and the batch is not full; and
\* the environment is reset before a batch exactly when the batch before it
\* ended its episode.
C16_BatchShape ==
    /\ [](wpc[1] \in {"collect", "train"} =>
            /\ Len(batch_obs) <= BatchSize
            /\ Len(batch_actions) = Len(batch_obs)
            /\ Len(batch_rewards) = Len(batch_obs))
    /\ [](wpc[1] = "train" =>
            /\ 1 <= Len(batch_obs)
            /\ Len(returns) = Len(batch_obs)
            /\ (term[1] \/ Len(batch_obs) = BatchSize))
    /\ [][/\ (batch_obs' # batch_obs /\ batch_obs' # << >>) =>
               /\ wpc[1] = "collect" /\ wpc'[1] = "collect"
               /\ ~term[1] /\ Len(batch_obs) < BatchSize
               /\ Len(batch_obs') = Len(batch_obs) + 1
          /\ (wpc[1] = "collect" /\ wpc'[1] = "train") =>
               (term[1] \/ Len(batch_obs) = BatchSize)
          /\ (wpc[1] = "sync" /\ wpc'[1] = "collect" /\ applied >= 1) =>
               ((env_resets' = env_resets + 1 /\ obs' = 0) <=> term[1])
          /\ (env_resets' # env_resets) =>
               (wpc[1] = "sync" /\ wpc'[1] = "collect")]_vars

C16_Witness ==
    /\ wpc[1] = "train"
    /\ applied >= 1
    /\ env_resets = 1
    /\ Len(batch_obs) = BatchSize
    /\ batch_obs[1] > 0
    /\ ~term[1]

\* C17: the reward stored in the batch is the raw reward clipped to [-1, 1]
\* (5 gives 1, -3 gives -1, a value inside is kept), the episode accumulator
\* adds the raw reward, and the accumulator is recorded into the reward
\* average and set back to 0 exactly when a batch ends its episode.
C17_ClipAndAccumulate ==
    /\ clip(5, -1, 1) = 1 /\ clip(-3, -1, 1) = -1
    /\ \A x \in -1..1 : clip(x, -1, 1) = x
    /\ [](/\ Len(raw_rewards) = Len(batch_rewards)
          /\ \A i \in 1..Len(batch_rewards) :
               /\ batch_rewards[i] \in -1..1
               /\ raw_rewards[i] \in -1..1 => batch_rewards[i] = raw_rewards[i]
               /\ raw_rewards[i] > 1 => batch_rewards[i] = 1
               /\ raw_rewards[i] < -1 => batch_rewards[i] = -1)
    /\ [][/\ (Len(raw_rewards') = Len(raw_rewards) + 1) =>
               reward_accum' = reward_accum + raw_rewards'[Len(raw_rewards')]
          /\ (wpc[1] = "collect" /\ wpc'[1] = "train") =>
               IF term[1]
                 THEN /\ ep_reward' = Append(ep_reward, reward_accum)
                      /\ reward_accum' = 0
                 ELSE UNCHANGED << ep_reward, reward_accum >>
          /\ (ep_reward' # ep_reward) =>
               (wpc[1] = "collect" /\ wpc'[1] = "train" /\ term[1])
          /\ (reward_accum' # reward_accum) =>
               \/ wpc[1] = "collect" /\ wpc'[1] = "collect"
               \/ wpc[1] = "collect" /\ wpc'[1] = "train" /\ term[1]]_vars

C17_Witness ==
    /\ wpc[1] = "train"
    /\ term[1]
    /\ Len(ep_reward) = 1
    /\ ep_reward[1] > BatchSize
    /\ reward_accum = 0
    /\ batch_rewards[1] = 1
    /\ raw_rewards[1] > 1

\* C18: the returns handed to the gradient step obey the backward recurrence
\* over the clipped rewards: the last one is r[n] + gamma * b, each earlier
\* one is r[i] + gamma * return[i+1], where b is 0 when the batch ended its
\* episode and otherwise the largest action value of the global target
\* network at the last observation.
C18_DiscountedReturns ==
    wpc[1] = "train" =>
      LET n == Len(batch_rewards)
          b == IF term[1] THEN 0 ELSE target_weights + obs + 1
      IN /\ expected_reward = b
         /\ Len(returns) = n
         /\ returns[n] = batch_rewards[n] + Gamma * b
         /\ \A i \in 1..(n - 1) :
              returns[i] = batch_rewards[i] + Gamma * returns[i + 1]

C18_Witness ==
    /\ wpc[1] = "train"
    /\ ~term[1]
    /\ Len(batch_rewards) = BatchSize
    /\ batch_rewards[1] # 0
    /\ local_weights[1] # target_weights
    /\ returns[1] = batch_rewards[1] + Gamma * returns[2]
    /\ expected_reward > 0

\* ------------------------------------------------- train() called again
\* train() called on an agent whose earlier call was interrupted: line 147
\* left request_stop set, and nothing cleared it since.
RestartInit ==
    /\ request_stop = TRUE
    /\ AgentInit
    /\ ReplayIdle
    /\ BatchInit

RestartSpec == RestartInit /\ [][Next]_vars

\* C19: a thread started by a call of train() leaves its loop only because
\* of a stop requested during that call; a request_stop left set by an
\* earlier, interrupted call is never seen by the new threads, however their
\* start interleaves with the reset of the flag.
C19_NoStaleStop ==
    \A t \in Threads : wpc[t] = "exited" => StopRequested

\* -------------------------------------------------------- the two counters
\* C20: starting from fresh counters, the global step never exceeds the
\* observation counter, and the observation counter never exceeds batch_size
\* times the global step plus the number of threads.
C20_CounterRelation ==
    /\ step_counter <= obs_counter
    /\ obs_counter <= BatchSize * (step_counter + thread_agents)

C20_Witness ==
    /\ step_counter >= 1
    /\ step_counter < obs_counter
    /\ obs_counter > BatchSize * step_counter
    /\ \A t \in Threads : wpc[t] = "train"

====
